---- MODULE Spec2Model ----
(***************************************************************************)
(* Steel vs Aluminium structural material selection tool (src/app.py).     *)
(*                                                                         *)
(* The model covers the two material records, the beam evaluator           *)
(* beam_udl_calculations, and the button handlers of Applications 1-4.     *)
(*                                                                         *)
(* Numbers.  The program computes in Python floats.  Here a number is an   *)
(* exact decimal-scaled rational  n/d * 10^e  kept in a canonical form     *)
(* (d coprime to 10 and to n, n not a multiple of 10), so that equal       *)
(* values are equal records.  Every arithmetic operator of the source is   *)
(* applied in the order the source applies it; the rounding of the         *)
(* 53-bit mantissa is not modelled.  float("inf") is the value Inf, and a  *)
(* float division by zero is the exception ZeroDivisionError.              *)
(***************************************************************************)
EXTENDS Integers, Sequences, FiniteSets, TLC

VARIABLES steel, aluminum, app, inputs, steel_res, alu_res, message, presses, ret

vars == <<steel, aluminum, app, inputs, steel_res, alu_res, message, presses, ret>>

----------------------------------------------------------------------------
(* Float values and the arithmetic operators of the source                 *)

Abs(i) == IF i < 0 THEN -i ELSE i

RECURSIVE Gcd(_, _)
Gcd(i, j) == IF j = 0 THEN i ELSE Gcd(j, i % j)

RECURSIVE Pow10(_)
Pow10(k) == IF k = 0 THEN 1 ELSE 10 * Pow10(k - 1)

\* n/d * 10^e with d coprime to 10: the factors 2 and 5 of d move into e
RECURSIVE Canon(_, _, _)
Canon(n, d, e) ==
    IF d % 2 = 0 THEN Canon(n * 5, d \div 2, e - 1)
    ELSE IF d % 5 = 0 THEN Canon(n * 2, d \div 5, e - 1)
    ELSE IF n % 10 = 0 THEN Canon(n \div 10, d, e + 1)
    ELSE [n |-> n, d |-> d, e |-> e]

Zero == [n |-> 0, d |-> 1, e |-> 0]

\* float("inf")
Inf == [n |-> 1, d |-> 0, e |-> 0]

\* the float n/d * 10^e  (d > 0)
Num(n, d, e) ==
    IF n = 0 THEN Zero
    ELSE LET g == Gcd(Abs(n), d) IN Canon(n \div g, d \div g, e)

\* an int or float literal
Lit(i) == Num(i, 1, 0)

\* x * y
Mul(x, y) == Num(x.n * y.n, x.d * y.d, x.e + y.e)

\* x / y for y # 0
Div(x, y) ==
    IF y.n < 0 THEN Num(-(x.n * y.d), x.d * (-y.n), x.e - y.e)
    ELSE Num(x.n * y.d, x.d * y.n, x.e - y.e)

\* x ** k for a literal k >= 1
RECURSIVE Pow(_, _)
Pow(x, k) == IF k = 1 THEN x ELSE Mul(x, Pow(x, k - 1))

Neg(x) == [x EXCEPT !.n = -x.n]

\* x < y for x > 0 and y > 0: a*10^k < c is a <= (c-1) \div 10^k
MagLess(x, y) ==
    LET a == x.n * y.d
        c == y.n * x.d
    IN  IF x.e >= y.e
        THEN /\ x.e - y.e <= 9
             /\ a <= (c - 1) \div Pow10(x.e - y.e)
        ELSE \/ y.e - x.e > 9
             \/ ~(c <= a \div Pow10(y.e - x.e))

\* x < y
Less(x, y) ==
    IF (x.n < 0 /\ y.n >= 0) \/ (x.n = 0 /\ y.n > 0) THEN TRUE
    ELSE IF x.n >= 0 /\ y.n <= 0 THEN FALSE
    ELSE IF x.n > 0 THEN MagLess(x, y)
    ELSE MagLess(Neg(y), Neg(x))

\* x <= y
Leq(x, y) == x = y \/ Less(x, y)

----------------------------------------------------------------------------
(* Material property data                                                  *)

SteelData ==
    [name |-> "Steel", tensile_strength |-> Lit(400), yield_strength |-> Lit(250),
     E |-> Lit(200), density |-> Lit(7850), cost |-> Lit(3), corrosion_rating |-> 2]

\* the aluminium record with its cost entered as 1.2 RM/kg
AluminumData_cost ==
    [name |-> "Aluminium", tensile_strength |-> Lit(310), yield_strength |-> Lit(275),
     E |-> Lit(69), density |-> Lit(2700), cost |-> Num(12, 1, -1), corrosion_rating |-> 5]

AluminumData ==
    [name |-> "Aluminium", tensile_strength |-> Lit(310), yield_strength |-> Lit(275),
     E |-> Lit(69), density |-> Lit(2700), cost |-> Lit(12), corrosion_rating |-> 5]

----------------------------------------------------------------------------
(* beam_udl_calculations                                                   *)

None == "None"

Return(v) == <<"return", v>>

Raise(exc) == <<"raise", exc>>

Returned(o) == o[1] = "return"

\* Step 4 guarded by sigma_MPa != 0
fos_nonzero(sigma_y, sigma_MPa) ==
    IF sigma_MPa # Zero THEN Div(sigma_y, sigma_MPa) ELSE Inf

\* Step 4: sigma_y / sigma_MPa if sigma_MPa > 0 else float("inf")
fos(sigma_y, sigma_MPa) ==
    IF Less(Zero, sigma_MPa) THEN Div(sigma_y, sigma_MPa) ELSE Inf

\* Step 6: (L / 360.0) * 1000.0
delta_allow(L) == Mul(Div(L, Lit(360)), Lit(1000))

\* "PASS?" with a strict bound
PASS_strict(delta_mm, allow) == Less(delta_mm, allow)

\* "PASS?": delta_mm <= delta_allow
PASS(delta_mm, allow) == Leq(delta_mm, allow)

\* Step 7 without the span
Volume_area(b, h, L) == Mul(b, h)

\* Step 7: V = b * h * L
Volume(b, h, L) == Mul(Mul(b, h), L)

\* Step 9 without the price per kg
total_cost_mass(mass, mat) == mass

\* Step 9: mass * mat["cost"]
total_cost(mass, mat) == Mul(mass, mat.cost)

beam_udl_calculations(L, w_kN_m, b, h, mat) ==
    LET w     == Mul(w_kN_m, Lit(1000))
        Mmax  == Div(Mul(w, Pow(L, 2)), Lit(8))
        I     == Div(Mul(b, Pow(h, 3)), Lit(12))
        c     == Div(h, Lit(2))
        E     == Mul(mat.E, Num(1, 1, 9))
        den   == Mul(Mul(Lit(384), E), I)
    IN  IF I = Zero \/ den = Zero
        THEN Raise("ZeroDivisionError")
        ELSE
          LET sigma     == Div(Mul(Mmax, c), I)
              sigma_MPa == Div(sigma, Num(1, 1, 6))
              sigma_y   == mat.yield_strength
              delta     == Div(Mul(Mul(Lit(5), w), Pow(L, 4)), den)
              delta_mm  == Mul(delta, Lit(1000))
              allow     == delta_allow(L)
              V         == Volume(b, h, L)
              mass      == Mul(mat.density, V)
          IN  Return([Mmax       |-> Mmax,
                      I          |-> I,
                      Stress     |-> sigma_MPa,
                      FOS        |-> fos(sigma_y, sigma_MPa),
                      Deflection |-> delta_mm,
                      Allowable  |-> allow,
                      PASS       |-> PASS(delta_mm, allow),
                      Volume     |-> V,
                      Mass       |-> mass,
                      Cost       |-> total_cost(mass, mat)])

----------------------------------------------------------------------------
(* Bounds of the model and the values the number inputs are drawn from     *)

MaxSpan == 1
MaxLoad == 1
MaxCost == 3
MaxPresses == 2

\* "Beam span, L (m)": min_value 0.1, value 6.0
Spans == {Num(1, 1, -1)} \cup {Lit(2 * k) : k \in 1..MaxSpan}

\* "UDL load, w (kN/m)": min_value 0.0, value 12.0
Loads == {Lit(0), Lit(12)} \cup {Lit(40 * k) : k \in 1..MaxLoad}

\* "Beam width, b (m)": min_value 0.001, value 0.10
Widths == {Num(1, 1, -3), Num(9, 1, -2), Num(1, 1, -1)}

\* "Beam height, h (m)": min_value 0.001, value 0.20
Heights == {Num(1, 1, -3), Num(1, 1, -1), Num(2, 1, -1)}

\* what a caller that bypasses the number inputs may pass
AnySpans == Spans \cup {Lit(0), Lit(-2)}

AnyWidths == Widths \cup {Lit(0), Num(-1, 1, -3)}

AnyHeights == Heights \cup {Lit(0), Num(-1, 1, -1)}

Environments == {"Indoor (dry)", "Outdoor (normal)", "Coastal / Corrosive"}

----------------------------------------------------------------------------
(* Application 1: the recommendation of application_1_beam_udl             *)

STEEL_ALU_FAILS ==
    "Final Recommendation: **STEEL** (Aluminium fails deflection/serviceability)."

ALUMINIUM_STEEL_FAILS ==
    "Final Recommendation: **ALUMINIUM** (Steel fails deflection/serviceability)."

STEEL_COST_EFFECTIVE ==
    "Final Recommendation: **STEEL** (more cost-effective)."

ALUMINIUM_LIGHTER ==
    "Final Recommendation: **ALUMINIUM** (lighter / may be preferred if weight is priority)."

\* the cost comparison made before the serviceability branches
Recommendation_costfirst(s_res, a_res) ==
    IF Less(s_res.Cost, a_res.Cost) THEN STEEL_COST_EFFECTIVE
    ELSE IF s_res.PASS /\ ~a_res.PASS THEN STEEL_ALU_FAILS
    ELSE IF a_res.PASS /\ ~s_res.PASS THEN ALUMINIUM_STEEL_FAILS
    ELSE ALUMINIUM_LIGHTER

\* the tie-break made on "Mass(kg)"
Recommendation_mass(s_res, a_res) ==
    IF s_res.PASS /\ ~a_res.PASS THEN STEEL_ALU_FAILS
    ELSE IF a_res.PASS /\ ~s_res.PASS THEN ALUMINIUM_STEEL_FAILS
    ELSE IF Less(s_res.Mass, a_res.Mass) THEN STEEL_COST_EFFECTIVE
    ELSE ALUMINIUM_LIGHTER

\* the tie-break made with <=
Recommendation_leq(s_res, a_res) ==
    IF s_res.PASS /\ ~a_res.PASS THEN STEEL_ALU_FAILS
    ELSE IF a_res.PASS /\ ~s_res.PASS THEN ALUMINIUM_STEEL_FAILS
    ELSE IF Leq(s_res.Cost, a_res.Cost) THEN STEEL_COST_EFFECTIVE
    ELSE ALUMINIUM_LIGHTER

Recommendation(s_res, a_res) ==
    LET steel_pass == s_res.PASS
        alu_pass   == a_res.PASS
    IN  IF steel_pass /\ ~alu_pass THEN STEEL_ALU_FAILS
        ELSE IF alu_pass /\ ~steel_pass THEN ALUMINIUM_STEEL_FAILS
        ELSE IF Less(s_res.Cost, a_res.Cost) THEN STEEL_COST_EFFECTIVE
        ELSE ALUMINIUM_LIGHTER

\* history: the number of buttons pressed in the session, counted to MaxPresses
Pressed(k) == IF k < MaxPresses THEN k + 1 ELSE k

RunBeam ==
    \E L \in Spans, w \in Loads, b \in Widths, h \in Heights :
      LET s == beam_udl_calculations(L, w, b, h, steel)
          a == beam_udl_calculations(L, w, b, h, aluminum)
          ok == Returned(s) /\ Returned(a)
          s_res == IF ok THEN s[2] ELSE None
          a_res == IF ok THEN a[2] ELSE None
          msg == IF ok THEN Recommendation(s[2], a[2])
                 ELSE IF Returned(s) THEN a[2] ELSE s[2]
          in == [L |-> L, w |-> w, b |-> b, h |-> h]
      IN  /\ app' = "beam"
          /\ inputs' = in
          /\ steel_res' = s_res
          /\ alu_res' = a_res
          /\ message' = msg
          /\ presses' = Pressed(presses)
          /\ UNCHANGED <<steel, aluminum, ret>>

----------------------------------------------------------------------------
(* Application 2: weight-based selection                                   *)

RunWeight ==
    \E L \in Spans, b \in Widths, h \in Heights :
      LET V  == Mul(Mul(b, h), L)
          ms == Mul(steel.density, V)
          ma == Mul(aluminum.density, V)
      IN  /\ app' = "weight"
          /\ inputs' = [L |-> L, b |-> b, h |-> h]
          /\ steel_res' = ms
          /\ alu_res' = ma
          /\ message' = IF Less(ma, ms)
                THEN "Recommendation: **ALUMINIUM** (lighter -> better for weight reduction)."
                ELSE "Recommendation: **STEEL** (unlikely, but heavier geometry case)."
          /\ presses' = Pressed(presses)
          /\ UNCHANGED <<steel, aluminum, ret>>

----------------------------------------------------------------------------
(* Application 3: cost-based selection                                     *)

\* the handler keeping its total in the steel record
RunCost_stores ==
    \E L \in Spans, b \in Widths, h \in Heights :
      LET V == Mul(Mul(b, h), L)
          steel_cost == Mul(Mul(steel.density, V), steel.cost)
          alu_cost   == Mul(Mul(aluminum.density, V), aluminum.cost)
      IN  /\ app' = "cost"
          /\ inputs' = [L |-> L, b |-> b, h |-> h]
          /\ steel_res' = steel_cost
          /\ alu_res' = alu_cost
          /\ message' = IF Less(steel_cost, alu_cost)
                THEN "Recommendation: **STEEL** (cheaper)."
                ELSE "Recommendation: **ALUMINIUM** (cheaper)."
          /\ steel' = [steel EXCEPT !.cost = steel_cost]
          /\ presses' = Pressed(presses)
          /\ UNCHANGED <<aluminum, ret>>

RunCost ==
    \E L \in Spans, b \in Widths, h \in Heights :
      LET V == Mul(Mul(b, h), L)
          steel_cost == Mul(Mul(steel.density, V), steel.cost)
          alu_cost   == Mul(Mul(aluminum.density, V), aluminum.cost)
      IN  /\ app' = "cost"
          /\ inputs' = [L |-> L, b |-> b, h |-> h]
          /\ steel_res' = steel_cost
          /\ alu_res' = alu_cost
          /\ message' = IF Less(steel_cost, alu_cost)
                THEN "Recommendation: **STEEL** (cheaper)."
                ELSE "Recommendation: **ALUMINIUM** (cheaper)."
          /\ presses' = Pressed(presses)
          /\ UNCHANGED <<steel, aluminum, ret>>

----------------------------------------------------------------------------
(* Application 4: corrosion resistance selection                           *)

RunCorrosion ==
    \E env \in Environments :
      /\ app' = "corrosion"
      /\ inputs' = [env |-> env]
      /\ steel_res' = None
      /\ alu_res' = None
      /\ message' = IF env = "Coastal / Corrosive"
            THEN "Recommendation: **ALUMINIUM** (better corrosion resistance)."
            ELSE "Recommendation: **STEEL** (cost-effective; corrosion can be protected with coating)."
      /\ presses' = Pressed(presses)
      /\ UNCHANGED <<steel, aluminum, ret>>

----------------------------------------------------------------------------
(* The running app: any button, any number of times                        *)

Init ==
    /\ steel = SteelData
    /\ aluminum = AluminumData
    /\ app = None
    /\ inputs = None
    /\ steel_res = None
    /\ alu_res = None
    /\ message = None
    /\ presses = 0
    /\ ret = <<>>

Next == RunBeam \/ RunWeight \/ RunCost \/ RunCorrosion

Spec == Init /\ [][Next]_vars

----------------------------------------------------------------------------
(* The evaluator called directly, once, with arguments the number inputs   *)
(* would have refused as well as those they accept                         *)

CallEvaluator ==
    \E L \in AnySpans, w \in Loads, b \in AnyWidths, h \in AnyHeights,
       mat \in {steel, aluminum} :
      /\ ret = <<>>
      /\ ret' = <<[L |-> L, w |-> w, b |-> b, h |-> h, mat |-> mat,
                   out |-> beam_udl_calculations(L, w, b, h, mat)]>>
      /\ UNCHANGED <<steel, aluminum, app, inputs, steel_res, alu_res,
                     message, presses>>

LibNext == CallEvaluator

SpecLib == Init /\ [][LibNext]_vars

----------------------------------------------------------------------------
(* The recommendation step of Application 1 on any pair of beam results    *)

BeamResult(pass, cost, mass) ==
    [Mmax |-> Zero, I |-> Zero, Stress |-> Zero, FOS |-> Inf,
     Deflection |-> Zero, Allowable |-> Zero, PASS |-> pass,
     Volume |-> Zero, Mass |-> mass, Cost |-> cost]

ResultSamples ==
    {BeamResult(pass, Lit(cost), Lit(mass)) :
        pass \in BOOLEAN, cost \in 1..MaxCost, mass \in 1..2}

SelInit ==
    /\ steel = SteelData
    /\ aluminum = AluminumData
    /\ app = "beam"
    /\ inputs = None
    /\ steel_res \in ResultSamples
    /\ alu_res \in ResultSamples
    /\ message = None
    /\ presses = 0
    /\ ret = <<>>

Decide ==
    /\ message = None
    /\ message' = Recommendation(steel_res, alu_res)
    /\ UNCHANGED <<steel, aluminum, app, inputs, steel_res, alu_res, presses, ret>>

SelNext == Decide

SpecSel == SelInit /\ [][SelNext]_vars

----------------------------------------------------------------------------
(* Properties                                                              *)

\* the material a recommendation names
Winner(msg) ==
    IF msg \in {STEEL_ALU_FAILS, STEEL_COST_EFFECTIVE} THEN "Steel" ELSE "Aluminium"

\* the minimums of the four number inputs of Application 1
ValidInput(L, w, b, h) ==
    /\ Leq(Num(1, 1, -1), L)
    /\ Leq(Zero, w)
    /\ Leq(Num(1, 1, -3), b)
    /\ Leq(Num(1, 1, -3), h)

Decided == message # None

Called == ret # <<>>

TieBreak == steel_res.PASS = alu_res.PASS

\* C1: when exactly one of the two results passes, the passing material wins
\* with the matching reason, whatever the two costs are.
C1_OnePassWins ==
    Decided =>
      /\ (steel_res.PASS /\ ~alu_res.PASS) => message = STEEL_ALU_FAILS
      /\ (alu_res.PASS /\ ~steel_res.PASS) => message = ALUMINIUM_STEEL_FAILS

\* aluminium alone passes and wins although steel is the cheaper one
C1_Witness ==
    /\ Decided
    /\ alu_res.PASS /\ ~steel_res.PASS
    /\ Less(steel_res.Cost, alu_res.Cost)
    /\ message = ALUMINIUM_STEEL_FAILS

C3_PassIffWithinLimit ==
    (/\ Called
     /\ ValidInput(ret[1].L, ret[1].w, ret[1].b, ret[1].h)) =>
      /\ Returned(ret[1].out)
      /\ Leq(Zero, ret[1].out[2].Deflection)
      /\ Leq(Zero, ret[1].out[2].Allowable)
      /\ ret[1].out[2].Allowable = Div(Mul(ret[1].L, Lit(1000)), Lit(360))
      /\ ret[1].out[2].PASS <=>
            Leq(ret[1].out[2].Deflection, ret[1].out[2].Allowable)

\* a deflection exactly at the limit, which passes
C3_Witness ==
    /\ Called
    /\ ValidInput(ret[1].L, ret[1].w, ret[1].b, ret[1].h)
    /\ Returned(ret[1].out)
    /\ Less(Zero, ret[1].out[2].Deflection)
    /\ ret[1].out[2].Deflection = ret[1].out[2].Allowable
    /\ ret[1].out[2].PASS

\* C4: FOS is infinity when the stress in MPa is <= 0, and yield strength
\* over stress otherwise.
C4_FactorOfSafety ==
    (Called /\ Returned(ret[1].out)) =>
      IF Leq(ret[1].out[2].Stress, Zero)
      THEN ret[1].out[2].FOS = Inf
      ELSE ret[1].out[2].FOS =
             Div(ret[1].mat.yield_strength, ret[1].out[2].Stress)

\* a negative stress, reported with an infinite factor of safety
C4_Witness ==
    /\ Called
    /\ Returned(ret[1].out)
    /\ Less(ret[1].out[2].Stress, Zero)
    /\ ret[1].out[2].FOS = Inf

\* C5: a call with L <= 0, b <= 0 or h <= 0 fails with InvalidGeometry.
C5_InvalidGeometryRaised ==
    (/\ Called
     /\ \/ Leq(ret[1].L, Zero)
        \/ Leq(ret[1].b, Zero)
        \/ Leq(ret[1].h, Zero)) =>
      /\ ~Returned(ret[1].out)
      /\ ret[1].out[2] = "InvalidGeometry"

C7_ZeroLoad ==
    (app = "beam" /\ inputs.w = Zero) =>
      /\ \A r \in {steel_res, alu_res} :
            /\ r.Mmax = Zero
            /\ r.Stress = Zero
            /\ r.FOS = Inf
            /\ r.Deflection = Zero
            /\ r.PASS
      /\ message = STEEL_COST_EFFECTIVE

C7_Witness ==
    /\ app = "beam"
    /\ inputs.w = Zero
    /\ steel_res.PASS /\ alu_res.PASS
    /\ message = STEEL_COST_EFFECTIVE

\* C8: the total cost is density * b * h * L * cost per kg of the material,
\* whatever the load.
C8_TotalCost ==
    (/\ Called
     /\ ValidInput(ret[1].L, ret[1].w, ret[1].b, ret[1].h)) =>
      /\ Returned(ret[1].out)
      /\ ret[1].out[2].Cost =
           Mul(Mul(Mul(Mul(ret[1].mat.density, ret[1].b), ret[1].h), ret[1].L),
               ret[1].mat.cost)

\* a loaded aluminium beam of span 2 m
C8_Witness ==
    /\ Called
    /\ ret[1].mat = AluminumData
    /\ Less(Zero, ret[1].w)
    /\ ret[1].L = Lit(2)
    /\ Returned(ret[1].out)
    /\ ret[1].out[2].Cost = Mul(Lit(32400), Mul(Mul(ret[1].b, ret[1].h), Lit(2)))

\* C9: the two material records never change, and a beam run shows, at any
\* point of the session, what a fresh process shows for the same inputs.
C9_NoCarryOver ==
    /\ steel = SteelData
    /\ aluminum = AluminumData
    /\ app = "beam" =>
         /\ steel_res = beam_udl_calculations(inputs.L, inputs.w, inputs.b,
                                              inputs.h, SteelData)[2]
         /\ alu_res = beam_udl_calculations(inputs.L, inputs.w, inputs.b,
                                            inputs.h, AluminumData)[2]
         /\ message = Recommendation(steel_res, alu_res)

\* a beam run that follows at least one other request
C9_Witness ==
    /\ presses >= 2
    /\ app = "beam"
    /\ steel = SteelData
    /\ steel_res.Cost = Mul(Lit(23550), steel_res.Volume)

\* C10: Application 1 never recommends Aluminium: steel deflects no more
\* than aluminium, so aluminium passing implies steel passing, and steel is
\* always strictly the cheaper.
C10_NeverAluminium ==
    app = "beam" =>
      /\ Winner(message) = "Steel"
      /\ Leq(steel_res.Deflection, alu_res.Deflection)
      /\ alu_res.PASS => steel_res.PASS
      /\ Less(steel_res.Cost, alu_res.Cost)

\* both fail serviceability and the tie-break selects Steel
C10_Witness ==
    /\ app = "beam"
    /\ ~steel_res.PASS /\ ~alu_res.PASS
    /\ message = STEEL_COST_EFFECTIVE

====
